---- MODULE Spec2Model ----
(***************************************************************************)
(* State-machine model of the VideoConference prefab                       *)
(* (packages/react/src/prefabs/VideoConference.tsx): the auto-focus        *)
(* effect over the pin store, the carousel derivation, the waiting toast   *)
(* with its setTimeout expiry, the widget state and the waiting-room       *)
(* count.  One action per event handler / effect / timer callback; every   *)
(* action includes the re-render that follows it.                          *)
(***************************************************************************)
EXTENDS Integers, Sequences, FiniteSets, TLC

(* ---------------------------------------------------------------- bounds *)
MaxTracks == 3
MaxTimers == 3
MaxTime == 6000
TickMs == 1000
MaxCount == 2

(* ------------------------------------------------------------- constants *)
\* setTimeout(..., 3000)
D == 3000

(* ------------------------------------------------------------ track data *)
\* JS null (as a track reference), null (as a string state), undefined
Null == [kind |-> "null"]
NullString == "<null>"
Undefined == "undefined"

\* Track.Source.Camera / Track.Source.ScreenShare
Camera == "camera"
ScreenShare == "screen_share"

\* The track references useTracks can deliver: camera tracks, camera
\* placeholders (withPlaceholder: true) and screen-share tracks
\* (withPlaceholder: false).  A placeholder has no publication, hence no
\* trackSid.
AllTracks ==
    { [participant |-> "alice", source |-> Camera, trackSid |-> "c1"],
      [participant |-> "bob", source |-> Camera, trackSid |-> Undefined],
      [participant |-> "alice", source |-> ScreenShare, trackSid |-> "s1"],
      [participant |-> "bob", source |-> ScreenShare, trackSid |-> "s2"] }

RECURSIVE SeqsOver(_, _)
SeqsOver(S, n) ==
    IF n = 0 THEN { <<>> }
    ELSE LET shorter == SeqsOver(S, n - 1)
         IN shorter \cup { Append(s, t) : s \in shorter, t \in S }

NoDuplicates(s) == \A i, j \in 1..Len(s) : i # j => s[i] # s[j]

\* Every value the tracks array can take: an ordered list of distinct
\* track references.
Snapshots == { s \in SeqsOver(AllTracks, MaxTracks) : NoDuplicates(s) }

\* The toast messages the Users panel passes to setWaiting.
Messages == { "A", "B", "" }

\* WidgetState.showChat
WidgetValues == { "show_invite", "show_users" }

(* ------------------------------------------------------------- variables *)
VARIABLES
    tracks,                \* useTracks(...) result of the current render
    pinState,              \* layoutContext.pin.state
    dispatchReady,         \* layoutContext.pin.dispatch is defined
    lastAutoFocusedScreenShareTrack,   \* the ref's .current
    focusDeps,             \* dependency array of the auto-focus effect, last render
    focusPending,          \* the auto-focus effect is scheduled to run
    emitted,               \* action the auto-focus effect handed to dispatch?.()
    lastWrittenPin,        \* track of the latest set_pin of the effect that reached the store
    pinBefore,             \* pin state the latest run of the auto-focus effect started from
    emittedSinceEvent,     \* actions the effect emitted since the latest track or pin event
    sinceSetPin,           \* track the effect pinned that has been a screen share ever since
    waiting,               \* toast message state
    timers,                \* pending setTimeout callbacks, by due time
    now,                   \* clock in ms
    showParticipantButton, \* prop
    mounted,               \* the component is mounted
    lastSetAt,             \* time of the latest effective setWaitingMessage
    lastMsg,               \* its message
    restarted,             \* it came less than D after the previous effective one
    widgetState,           \* widgetState.showChat
    waitingRoomCount,      \* waitingRoomCount state
    lastWidgetWrite,       \* value the latest widgetUpdate call passed
    step                   \* name of the last handler that ran

pinVars == <<tracks, pinState, dispatchReady, lastAutoFocusedScreenShareTrack,
             focusDeps, focusPending, emitted, lastWrittenPin, pinBefore,
             emittedSinceEvent, sinceSetPin>>
toastVars == <<waiting, timers, now, lastSetAt, lastMsg, restarted>>
sideVars == <<widgetState, waitingRoomCount, lastWidgetWrite>>
vars == <<tracks, pinState, dispatchReady, lastAutoFocusedScreenShareTrack,
          focusDeps, focusPending, emitted, lastWrittenPin, pinBefore,
          emittedSinceEvent, sinceSetPin, waiting, timers, now,
          showParticipantButton, mounted, lastSetAt, lastMsg, restarted,
          widgetState, waitingRoomCount, lastWidgetWrite, step>>

(* ------------------------------------------------------- pure derivations *)
\* isTrackReference: the reference has a publication
isTrackReference(t) == t.trackSid # Undefined

\* tracks.filter(isTrackReference).filter(source === ScreenShare)
screenShareTracksReversed(ts) ==
    LET IsShare(t) == isTrackReference(t) /\ t.source = ScreenShare
        kept == SelectSeq(ts, IsShare)
    IN [i \in 1..Len(kept) |-> kept[Len(kept) + 1 - i]]

screenShareTracks(ts) ==
    LET IsShare(t) == isTrackReference(t) /\ t.source = ScreenShare
    IN SelectSeq(ts, IsShare)

\* usePinnedTracks(layoutContext)?.[0]
focusTrack(ps) == IF Len(ps) >= 1 THEN ps[1] ELSE Null

\* focusTrack?.publication?.trackSid
focusTrackSid(ps) == IF focusTrack(ps) = Null THEN Undefined ELSE focusTrack(ps).trackSid

\* isEqualTrackRef(a, b)
isEqualTrackRef(a, b) == a # Null /\ b # Null /\ a = b

\* tracks.filter((track) => !isEqualTrackRef(track, focusTrack))
carouselTracksKeepAll(ts, ps) == ts

carouselTracksByParticipant(ts, ps) ==
    LET NotFocus(t) == focusTrack(ps) = Null \/ t.participant # focusTrack(ps).participant
    IN SelectSeq(ts, NotFocus)

carouselTracks(ts, ps) ==
    LET NotFocus(t) == ~isEqualTrackRef(t, focusTrack(ps))
    IN SelectSeq(ts, NotFocus)

\* The layout the component renders: the grid over all tracks when nothing
\* is pinned, otherwise the focus layout with the carousel.
Layout(ts, ps) ==
    IF focusTrack(ps) = Null
    THEN [mode |-> "grid", tracks |-> ts]
    ELSE [mode |-> "focus", focusTrack |-> focusTrack(ps),
          carouselTracks |-> carouselTracks(ts, ps)]

\* Array.prototype.join() with the default separator
RECURSIVE Join(_)
Join(s) ==
    IF s = <<>> THEN ""
    ELSE IF Len(s) = 1 THEN s[1]
    ELSE s[1] \o "," \o Join(Tail(s))

\* The dependency array of the auto-focus effect
FocusKeyAllTracks(ts, ps) ==
    LET refs == SelectSeq(ts, isTrackReference)
    IN << Join([i \in 1..Len(refs) |-> refs[i].trackSid]), focusTrackSid(ps) >>

FocusKeyPinOnly(ts, ps) == << "", focusTrackSid(ps) >>

FocusKey(ts, ps) ==
    LET shares == screenShareTracks(ts)
    IN << Join([i \in 1..Len(shares) |-> shares[i].trackSid]), focusTrackSid(ps) >>

\* React re-runs an effect when a dependency differs from the last render
DepsChanged(old, new) == old # new

\* Pin reducer: set_pin stores the reference, clear_pin empties the store
PinReducer(ps, action) ==
    IF action.msg = "set_pin" THEN << action.trackReference >>
    ELSE IF action.msg = "clear_pin" THEN << >>
    ELSE ps

\* layoutContext.pin.dispatch?.(action)
DispatchUnconditional(ps, ready, action) == PinReducer(ps, action)

Dispatch(ps, ready, action) == IF ready THEN PinReducer(ps, action) ELSE ps

NoAction == [msg |-> "none"]
SetPin(t) == [msg |-> "set_pin", trackReference |-> t]
ClearPin == [msg |-> "clear_pin"]

\* if (waiting) ...
Truthy(m) == m # NullString /\ m # ""

(* ------------------------------------------------------------------ Init *)
Init ==
    /\ tracks \in Snapshots
    /\ pinState = << >>
    /\ dispatchReady \in BOOLEAN
    /\ lastAutoFocusedScreenShareTrack = Null
    /\ focusDeps = FocusKey(tracks, pinState)
    /\ focusPending = TRUE
    /\ emitted = NoAction
    /\ lastWrittenPin = Null
    /\ pinBefore = << >>
    /\ emittedSinceEvent = << >>
    /\ sinceSetPin = Null
    /\ waiting = NullString
    /\ timers = << >>
    /\ now = 0
    /\ showParticipantButton \in BOOLEAN
    /\ mounted = TRUE
    /\ lastSetAt = -1
    /\ lastMsg = NullString
    /\ restarted = FALSE
    /\ widgetState = NullString
    /\ waitingRoomCount = 0
    /\ lastWidgetWrite = NullString
    /\ step = "mount"

\* Re-render after a change of tracks or pin state: the auto-focus effect is
\* scheduled when its dependency array changed.
Rerender(newTracks, newPin) ==
    /\ focusDeps' = FocusKey(newTracks, newPin)
    /\ focusPending' = DepsChanged(focusDeps, FocusKey(newTracks, newPin))

\* Track and pin events are handled between renders: a scheduled
\* auto-focus effect is flushed first.
Idle == mounted /\ ~focusPending

(* ------------------------------------------------- pin store and tracks *)
\* useTracks delivers a new tracks array (possibly with the same content).
SnapshotUpdate(newTracks) ==
    /\ Idle
    /\ tracks' = newTracks
    /\ Rerender(newTracks, pinState)
    /\ emitted' = NoAction
    /\ pinBefore' = << >>
    /\ emittedSinceEvent' = << >>
    /\ sinceSetPin' = IF /\ sinceSetPin # Null
                         /\ \E i \in 1..Len(newTracks) : newTracks[i] = sinceSetPin
                      THEN sinceSetPin ELSE Null
    /\ step' = "SnapshotUpdate"
    /\ UNCHANGED <<pinState, dispatchReady, lastAutoFocusedScreenShareTrack,
                   lastWrittenPin, showParticipantButton, mounted>>
    /\ UNCHANGED toastVars /\ UNCHANGED sideVars

\* A tile's focus toggle pins a track through the same pin channel.
UserSetPin(t) ==
    /\ Idle
    /\ dispatchReady
    /\ \E i \in 1..Len(tracks) : tracks[i] = t
    /\ pinState' = PinReducer(pinState, SetPin(t))
    /\ Rerender(tracks, pinState')
    /\ emitted' = NoAction
    /\ pinBefore' = << >>
    /\ emittedSinceEvent' = << >>
    /\ step' = "UserSetPin"
    /\ UNCHANGED sinceSetPin
    /\ UNCHANGED <<tracks, dispatchReady, lastAutoFocusedScreenShareTrack,
                   lastWrittenPin, showParticipantButton, mounted>>
    /\ UNCHANGED toastVars /\ UNCHANGED sideVars

\* The focus toggle of the focused tile clears the pin.
UserClearPin ==
    /\ Idle
    /\ dispatchReady
    /\ pinState' = PinReducer(pinState, ClearPin)
    /\ Rerender(tracks, pinState')
    /\ emitted' = NoAction
    /\ pinBefore' = << >>
    /\ emittedSinceEvent' = << >>
    /\ step' = "UserClearPin"
    /\ UNCHANGED sinceSetPin
    /\ UNCHANGED <<tracks, dispatchReady, lastAutoFocusedScreenShareTrack,
                   lastWrittenPin, showParticipantButton, mounted>>
    /\ UNCHANGED toastVars /\ UNCHANGED sideVars

\* The pin dispatch channel becomes available.
PinStoreMounts ==
    /\ Idle
    /\ ~dispatchReady
    /\ dispatchReady' = TRUE
    /\ Rerender(tracks, pinState)
    /\ emitted' = NoAction
    /\ pinBefore' = << >>
    /\ emittedSinceEvent' = << >>
    /\ step' = "PinStoreMounts"
    /\ UNCHANGED sinceSetPin
    /\ UNCHANGED <<tracks, pinState, lastAutoFocusedScreenShareTrack,
                   lastWrittenPin, showParticipantButton, mounted>>
    /\ UNCHANGED toastVars /\ UNCHANGED sideVars

\* The branch the auto-focus effect takes, as the action it hands to
\* dispatch?.() and the new value of the ref.
AutoFocusDecisionNoRefCheck(shares, last) ==
    IF Len(shares) > 0 /\ last = Null
    THEN [action |-> SetPin(shares[1]), last |-> shares[1]]
    ELSE IF ~(\E i \in 1..Len(shares) :
                 last # Null /\ shares[i].trackSid = last.trackSid)
    THEN [action |-> ClearPin, last |-> Null]
    ELSE [action |-> NoAction, last |-> last]

AutoFocusDecisionKeepRef(shares, last) ==
    IF Len(shares) > 0 /\ last = Null
    THEN [action |-> SetPin(shares[1]), last |-> shares[1]]
    ELSE IF /\ last # Null
            /\ ~(\E i \in 1..Len(shares) : shares[i].trackSid = last.trackSid)
    THEN [action |-> ClearPin, last |-> last]
    ELSE [action |-> NoAction, last |-> last]

AutoFocusDecisionAlwaysPin(shares, last) ==
    IF Len(shares) > 0
    THEN [action |-> SetPin(shares[1]), last |-> shares[1]]
    ELSE IF /\ last # Null
            /\ ~(\E i \in 1..Len(shares) : shares[i].trackSid = last.trackSid)
    THEN [action |-> ClearPin, last |-> Null]
    ELSE [action |-> NoAction, last |-> last]

AutoFocusDecision(shares, last) ==
    IF Len(shares) > 0 /\ last = Null
    THEN [action |-> SetPin(shares[1]), last |-> shares[1]]
    ELSE IF /\ last # Null
            /\ ~(\E i \in 1..Len(shares) : shares[i].trackSid = last.trackSid)
    THEN [action |-> ClearPin, last |-> Null]
    ELSE [action |-> NoAction, last |-> last]

\* The auto-focus effect runs, then the component re-renders with the pin
\* state the dispatch produced.
AutoFocusEffectRespectsPin ==
    /\ mounted
    /\ focusPending
    /\ LET ruled == AutoFocusDecision(screenShareTracks(tracks),
                                      lastAutoFocusedScreenShareTrack)
           decision == IF ruled.action.msg = "set_pin" /\ pinState # << >>
                       THEN [action |-> NoAction,
                             last |-> lastAutoFocusedScreenShareTrack]
                       ELSE ruled
       IN /\ emitted' = decision.action
          /\ pinState' = Dispatch(pinState, dispatchReady, decision.action)
          /\ lastAutoFocusedScreenShareTrack' = decision.last
          /\ lastWrittenPin' = IF decision.action.msg = "set_pin" /\ dispatchReady
                               THEN decision.action.trackReference
                               ELSE lastWrittenPin
          /\ emittedSinceEvent' = IF decision.action = NoAction
                                  THEN emittedSinceEvent
                                  ELSE Append(emittedSinceEvent, decision.action.msg)
          /\ sinceSetPin' = IF decision.action.msg = "set_pin"
                            THEN decision.action.trackReference
                            ELSE sinceSetPin
    /\ pinBefore' = pinState
    /\ Rerender(tracks, pinState')
    /\ step' = "AutoFocusEffect"
    /\ UNCHANGED <<tracks, dispatchReady, showParticipantButton, mounted>>
    /\ UNCHANGED toastVars /\ UNCHANGED sideVars

AutoFocusEffect ==
    /\ mounted
    /\ focusPending
    /\ LET decision == AutoFocusDecision(screenShareTracks(tracks),
                                         lastAutoFocusedScreenShareTrack)
       IN /\ emitted' = decision.action
          /\ pinState' = Dispatch(pinState, dispatchReady, decision.action)
          /\ lastAutoFocusedScreenShareTrack' = decision.last
          /\ lastWrittenPin' = IF decision.action.msg = "set_pin" /\ dispatchReady
                               THEN decision.action.trackReference
                               ELSE lastWrittenPin
          /\ emittedSinceEvent' = IF decision.action = NoAction
                                  THEN emittedSinceEvent
                                  ELSE Append(emittedSinceEvent, decision.action.msg)
          /\ sinceSetPin' = IF decision.action.msg = "set_pin"
                            THEN decision.action.trackReference
                            ELSE sinceSetPin
    /\ pinBefore' = pinState
    /\ Rerender(tracks, pinState')
    /\ step' = "AutoFocusEffect"
    /\ UNCHANGED <<tracks, dispatchReady, showParticipantButton, mounted>>
    /\ UNCHANGED toastVars /\ UNCHANGED sideVars

(* ------------------------------------------------------------ the toast *)
\* setWaitingMessage, the re-render and the waiting effect.  setWaiting
\* with the current value does not re-render, so the effect does not run.
setWaitingMessageUngated(flag, old, message) == message

setWaitingMessage(flag, old, message) == IF flag THEN message ELSE old

\* The waiting effect: schedules an expiry D ms from now for a truthy
\* message; it returns no cleanup, so earlier timeouts stay pending.
WaitingEffectNoTimeout(queue, message, t) == queue

WaitingEffect(queue, message, t) ==
    IF Truthy(message) THEN Append(queue, t + D) ELSE queue

SetMessage(message) ==
    /\ mounted
    /\ Len(timers) < MaxTimers
    /\ now + D <= MaxTime
    /\ waiting' = setWaitingMessage(showParticipantButton, waiting, message)
    /\ timers' = IF DepsChanged(<<waiting>>, <<waiting'>>)
                 THEN WaitingEffect(timers, waiting', now)
                 ELSE timers
    /\ IF showParticipantButton
       THEN /\ lastSetAt' = now
            /\ lastMsg' = message
            /\ restarted' = (lastSetAt >= 0 /\ lastSetAt < now /\ now - lastSetAt < D)
       ELSE UNCHANGED <<lastSetAt, lastMsg, restarted>>
    /\ step' = "SetMessage"
    /\ UNCHANGED <<now, showParticipantButton, mounted, emitted>>
    /\ UNCHANGED <<tracks, pinState, dispatchReady, lastAutoFocusedScreenShareTrack,
                   focusDeps, focusPending, lastWrittenPin, pinBefore,
                   emittedSinceEvent, sinceSetPin>>
    /\ UNCHANGED sideVars

\* A setTimeout callback runs: setWaiting(null).  Nothing cancels it, so
\* it also runs after the component has unmounted (the state update is
\* then dropped by React).
TimerExpiresClosesPanel ==
    /\ timers # << >>
    /\ Head(timers) <= now
    /\ timers' = Tail(timers)
    /\ waiting' = IF mounted THEN NullString ELSE waiting
    /\ widgetState' = NullString
    /\ step' = "TimerExpires"
    /\ UNCHANGED <<now, lastSetAt, lastMsg, restarted, showParticipantButton,
                   mounted, waitingRoomCount, lastWidgetWrite>>
    /\ UNCHANGED pinVars

TimerExpires ==
    /\ timers # << >>
    /\ Head(timers) <= now
    /\ timers' = Tail(timers)
    /\ waiting' = IF mounted THEN NullString ELSE waiting
    /\ step' = "TimerExpires"
    /\ UNCHANGED <<now, lastSetAt, lastMsg, restarted, showParticipantButton,
                   mounted>>
    /\ UNCHANGED pinVars /\ UNCHANGED sideVars

\* Time passes, up to the next due timeout.
Tick ==
    /\ now < MaxTime
    /\ IF timers = << >> THEN TRUE ELSE Head(timers) > now
    /\ now' = IF timers # << >> /\ Head(timers) < now + TickMs
              THEN Head(timers) ELSE now + TickMs
    /\ step' = "Tick"
    /\ UNCHANGED <<waiting, timers, lastSetAt, lastMsg, restarted,
                   showParticipantButton, mounted>>
    /\ UNCHANGED pinVars /\ UNCHANGED sideVars

\* The parent re-renders the component with another showParticipantButton.
PropsChange ==
    /\ mounted
    /\ showParticipantButton' = ~showParticipantButton
    /\ step' = "PropsChange"
    /\ UNCHANGED mounted
    /\ UNCHANGED pinVars /\ UNCHANGED toastVars /\ UNCHANGED sideVars

\* The component unmounts.  No effect has a cleanup function.
Unmount ==
    /\ mounted
    /\ mounted' = FALSE
    /\ step' = "Unmount"
    /\ UNCHANGED showParticipantButton
    /\ UNCHANGED pinVars /\ UNCHANGED toastVars /\ UNCHANGED sideVars

(* ----------------------------------------------------------- side stores *)
\* display of ShareLink: widgetState.showChat == 'show_invite'
ShareLinkVisibleWhenAny(ws) == ws # NullString

ShareLinkVisible(ws) == ws = "show_invite"

\* display of Users: widgetState.showChat == 'show_users'
UsersVisible(ws) == ws = "show_users"

widgetUpdate(state) ==
    /\ mounted
    /\ widgetState' = state
    /\ lastWidgetWrite' = state
    /\ step' = "widgetUpdate"
    /\ UNCHANGED <<waitingRoomCount, showParticipantButton, mounted>>
    /\ UNCHANGED pinVars /\ UNCHANGED toastVars

updateCount(count) ==
    /\ mounted
    /\ waitingRoomCount' = count
    /\ step' = "updateCount"
    /\ UNCHANGED <<widgetState, lastWidgetWrite, showParticipantButton, mounted>>
    /\ UNCHANGED pinVars /\ UNCHANGED toastVars

(* --------------------------------------------------------- specifications *)
NextPin ==
    \/ \E newTracks \in Snapshots : SnapshotUpdate(newTracks)
    \/ \E t \in AllTracks : UserSetPin(t)
    \/ UserClearPin
    \/ PinStoreMounts
    \/ AutoFocusEffect

NextToast ==
    \/ \E message \in Messages : SetMessage(message)
    \/ TimerExpires
    \/ Tick
    \/ PropsChange
    \/ Unmount

NextSide ==
    \/ \E state \in WidgetValues \cup {NullString} : widgetUpdate(state)
    \/ \E count \in 0..MaxCount : updateCount(count)

Next == NextPin \/ NextToast \/ NextSide

\* The pin store, the tracks and the auto-focus effect
SpecPin == Init /\ [][NextPin]_vars

\* The toast, its timeouts and the component's life cycle, in a room that
\* has no tracks
InitToast == Init /\ tracks = << >> /\ dispatchReady

SpecToast == InitToast /\ [][NextToast]_vars

Spec == Init /\ [][Next]_vars

(* ------------------------------------------------------------ properties *)
\* The first screen-share track reference, in the order of the tracks array
FirstScreenShare(ts) ==
    LET shareAt == { i \in 1..Len(ts) :
                       ts[i].source = ScreenShare /\ ts[i].trackSid # Undefined }
    IN ts[CHOOSE i \in shareAt : \A j \in shareAt : i <= j]

HasScreenShare(ts) ==
    \E i \in 1..Len(ts) : ts[i].source = ScreenShare /\ ts[i].trackSid # Undefined

HasScreenShareSid(ts, sid) ==
    \E i \in 1..Len(ts) : ts[i].source = ScreenShare /\ ts[i].trackSid = sid

\* C1: when an effective setMessage comes less than D after the previous
\* effective one, its message stays visible at every instant before D has
\* passed since it, and is cleared once D has passed since it.
C1_RestartOnReplacement ==
    (mounted /\ restarted /\ Truthy(lastMsg)) =>
        /\ now < lastSetAt + D => waiting = lastMsg
        /\ now > lastSetAt + D => ~Truthy(waiting)

\* C2: at most one notification expiry is pending at any instant.
C2_AtMostOnePendingExpiry == Len(timers) <= 1

\* C3 (as stated): after an auto-focus update that starts with a screen
\* share in the snapshot and an empty lastAutoPinned, the pin store holds
\* exactly the first screen share and lastAutoPinned refers to it.
C3_AutoPinAlwaysStored ==
    [][(/\ step' = "AutoFocusEffect"
        /\ HasScreenShare(tracks)
        /\ lastAutoFocusedScreenShareTrack = Null)
       => /\ pinState' = << FirstScreenShare(tracks) >>
          /\ lastAutoFocusedScreenShareTrack' = FirstScreenShare(tracks)]_vars

\* C3 (amended): such an update emits set_pin for the first screen share
\* and makes lastAutoPinned refer to it; the pin store holds exactly that
\* track when the pin dispatch channel is available.
C3_AutoPinWhenChannelReady ==
    [][(/\ step' = "AutoFocusEffect"
        /\ HasScreenShare(tracks)
        /\ lastAutoFocusedScreenShareTrack = Null)
       => /\ emitted' = SetPin(FirstScreenShare(tracks))
          /\ lastAutoFocusedScreenShareTrack' = FirstScreenShare(tracks)
          /\ dispatchReady => pinState' = << FirstScreenShare(tracks) >>]_vars

\* C3 witness: the effect has just pinned the first of two screen shares,
\* replacing nothing the second one could have been.
C3_Witness ==
    /\ step = "AutoFocusEffect"
    /\ emitted.msg = "set_pin"
    /\ dispatchReady
    /\ Len(screenShareTracks(tracks)) >= 2
    /\ pinState = << FirstScreenShare(tracks) >>
    /\ lastAutoFocusedScreenShareTrack = FirstScreenShare(tracks)

\* C4: an auto-focus update that starts with a non-empty lastAutoPinned
\* whose trackSid no screen share of the snapshot carries emits clear_pin,
\* leaves the pin empty and empties lastAutoPinned.
C4_AutoClear ==
    [][(/\ step' = "AutoFocusEffect"
        /\ lastAutoFocusedScreenShareTrack # Null
        /\ ~HasScreenShareSid(tracks, lastAutoFocusedScreenShareTrack.trackSid))
       => /\ emitted' = ClearPin
          /\ pinState' = << >>
          /\ lastAutoFocusedScreenShareTrack' = Null]_vars

\* C4 witness: clear_pin was just emitted while a camera track and a
\* placeholder are still in the snapshot.
C4_Witness ==
    /\ step = "AutoFocusEffect"
    /\ emitted = ClearPin
    /\ dispatchReady
    /\ lastAutoFocusedScreenShareTrack = Null
    /\ pinState = << >>
    /\ \E i, j \in 1..Len(tracks) :
          /\ tracks[i].source = Camera /\ tracks[i].trackSid # Undefined
          /\ tracks[j].trackSid = Undefined

\* The derived key: the screen-share trackSids in snapshot order and the
\* trackSid of the pinned track
DerivedKey(ts, ps) ==
    LET shareAt(i) == ts[i].source = ScreenShare /\ ts[i].trackSid # Undefined
        sids == [i \in 1..Len(ts) |-> IF shareAt(i) THEN ts[i].trackSid ELSE Undefined]
        IsSid(x) == x # Undefined
    IN << SelectSeq(sids, IsSid),
          IF ps = << >> THEN Undefined ELSE ps[1].trackSid >>

\* C5: a snapshot update that leaves the derived key unchanged schedules
\* no auto-focus update, emits nothing and leaves the pin and
\* lastAutoPinned alone; the effect runs only when it was scheduled.
C5_UnchangedKeyIsNoOp ==
    [][/\ (/\ step' = "SnapshotUpdate"
           /\ DerivedKey(tracks', pinState') = DerivedKey(tracks, pinState))
          => /\ ~focusPending'
             /\ emitted' = NoAction
             /\ pinState' = pinState
             /\ lastAutoFocusedScreenShareTrack' = lastAutoFocusedScreenShareTrack
       /\ step' = "AutoFocusEffect" => focusPending]_vars

\* C5 witness: a snapshot was applied in the steady state with a screen
\* share auto-pinned, and no update is scheduled.
C5_Witness ==
    /\ step = "SnapshotUpdate"
    /\ ~focusPending
    /\ lastAutoFocusedScreenShareTrack # Null
    /\ pinState = << lastAutoFocusedScreenShareTrack >>
    /\ HasScreenShare(tracks)

\* C6: no expiry callback runs after the component has been torn down.
C6_NoExpiryAfterTeardown == ~(step = "TimerExpires" /\ ~mounted)

\* C7: with a non-empty pin, no entry of the carousel tracks equals the
\* pinned track.
C7_CarouselExcludesPin ==
    pinState # << >> =>
        \A i \in 1..Len(carouselTracks(tracks, pinState)) :
            carouselTracks(tracks, pinState)[i] # pinState[1]

\* C7 witness: the pinned track is in the snapshot with other tracks, and
\* the carousel is shorter than the snapshot.
C7_Witness ==
    /\ pinState # << >>
    /\ Len(tracks) >= 2
    /\ \E i \in 1..Len(tracks) : tracks[i] = pinState[1]
    /\ Len(carouselTracks(tracks, pinState)) = Len(tracks) - 1

\* C8: with showParticipantButton false, setMessage changes neither the
\* message nor the pending expiries.
C8_CapabilityGate ==
    [][(step' = "SetMessage" /\ ~showParticipantButton)
       => (waiting' = waiting /\ timers' = timers)]_vars

\* C8 witness: setMessage was just called with the flag off while a
\* message set earlier is showing with its expiry pending.
C8_Witness ==
    /\ step = "SetMessage"
    /\ ~showParticipantButton
    /\ Truthy(waiting)
    /\ Len(timers) = 1

\* C9: lastAutoPinned is empty or is the track of the latest set_pin of the
\* auto-focus effect that reached the pin store.
C9_LastAutoPinnedWasWritten ==
    \/ lastAutoFocusedScreenShareTrack = Null
    \/ lastAutoFocusedScreenShareTrack = lastWrittenPin

\* C10 (as stated): an auto-focus update on an empty snapshot emits no pin
\* action and leaves lastAutoPinned unchanged, whatever its value.
C10_EmptySnapshotInert ==
    [][(step' = "AutoFocusEffect" /\ tracks = << >>)
       => /\ emitted' = NoAction
          /\ lastAutoFocusedScreenShareTrack' = lastAutoFocusedScreenShareTrack]_vars

\* C10 (amended): an auto-focus update on an empty snapshot with an empty
\* lastAutoPinned emits no pin action and leaves the pin and lastAutoPinned
\* unchanged.
C10_EmptySnapshotInertWhenNoAutoPin ==
    [][(/\ step' = "AutoFocusEffect"
        /\ tracks = << >>
        /\ lastAutoFocusedScreenShareTrack = Null)
       => /\ emitted' = NoAction
          /\ pinState' = pinState
          /\ lastAutoFocusedScreenShareTrack' = Null]_vars

\* C10 witness: the effect has just run on an empty snapshot with nothing
\* auto-pinned.
C10_Witness ==
    /\ step = "AutoFocusEffect"
    /\ tracks = << >>
    /\ emitted = NoAction
    /\ lastAutoFocusedScreenShareTrack = Null

\* C11: while the pin dispatch channel is absent, an action the auto-focus
\* effect emits leaves the pin store unchanged; when the channel becomes
\* available nothing is delivered late: the pin store is unchanged and no
\* run of the effect is scheduled.
C11_SilentDrop ==
    [][/\ (step' = "AutoFocusEffect" /\ ~dispatchReady /\ emitted' # NoAction)
          => pinState' = pinState
       /\ step' = "PinStoreMounts"
          => (pinState' = pinState /\ ~focusPending' /\ emitted' = NoAction)]_vars

\* C11 witness: the channel became available after a set_pin was dropped,
\* and the pin store is still empty.
C11_Witness ==
    /\ step = "PinStoreMounts"
    /\ dispatchReady
    /\ lastAutoFocusedScreenShareTrack # Null
    /\ lastWrittenPin = Null
    /\ pinState = << >>

\* The toast under the event loop's scheduling: a due timeout callback is
\* eventually run and time keeps passing.
SpecToastFair ==
    InitToast /\ [][NextToast]_vars /\ WF_vars(TimerExpires) /\ WF_vars(Tick)

\* C12: whenever the mounted component shows a message, the message is
\* eventually cleared (or the component has gone).
C12_ActiveEventuallyClears ==
    (mounted /\ Truthy(waiting)) ~> (~mounted \/ ~Truthy(waiting))

\* C12 witness: a timeout callback has just cleared a message that an
\* effective setMessage had put up.
C12_Witness ==
    /\ step = "TimerExpires"
    /\ mounted
    /\ waiting = NullString
    /\ timers = << >>
    /\ lastSetAt >= 0
    /\ Truthy(lastMsg)
    /\ now >= lastSetAt + D

\* The action the three rules prescribe, from the snapshot and
\* lastAutoPinned alone
RuleAction(ts, last) ==
    IF HasScreenShare(ts) /\ last = Null THEN SetPin(FirstScreenShare(ts))
    ELSE IF last # Null /\ ~HasScreenShareSid(ts, last.trackSid) THEN ClearPin
    ELSE NoAction

\* The value of lastAutoPinned the three rules prescribe
RuleLastAutoPinned(ts, last) ==
    IF HasScreenShare(ts) /\ last = Null THEN FirstScreenShare(ts)
    ELSE IF last # Null /\ ~HasScreenShareSid(ts, last.trackSid) THEN Null
    ELSE last

C14_AtMostOneActionPerUpdate == Len(emittedSinceEvent) <= 1

\* C14 (amended): a run of the auto-focus effect takes exactly one of its
\* three branches and emits at most one action; the runs that follow one
\* track or pin event emit nothing, one set_pin, one clear_pin, or a
\* clear_pin followed by a set_pin, and nothing else.
C14_OneBranchPerRun ==
    /\ emitted.msg \in { "none", "set_pin", "clear_pin" }
    /\ emittedSinceEvent \in { << >>, << "set_pin" >>, << "clear_pin" >>,
                               << "clear_pin", "set_pin" >> }
    /\ (step = "AutoFocusEffect" /\ emitted # NoAction)
           => emittedSinceEvent[Len(emittedSinceEvent)] = emitted.msg

\* C14 witness: after one snapshot update the effect cleared the pin of the
\* screen share that left and, re-run by the pin change, pinned the one
\* that remains.
C14_Witness ==
    /\ step = "AutoFocusEffect"
    /\ dispatchReady
    /\ emittedSinceEvent = << "clear_pin", "set_pin" >>
    /\ pinState = << FirstScreenShare(tracks) >>

\* The snapshot, in order, without the entries equal to p
RECURSIVE Without(_, _)
Without(ts, p) ==
    IF ts = << >> THEN << >>
    ELSE IF Head(ts) = p THEN Without(Tail(ts), p)
    ELSE << Head(ts) >> \o Without(Tail(ts), p)

\* C15: with an empty pin the layout is the grid over the whole snapshot,
\* in order, placeholders included; with pin P it is the focus layout with
\* focus track P and a carousel that is the snapshot, in order, without the
\* entries equal to P and with every other entry.
C15_LayoutSelector ==
    /\ pinState = << >>
         => /\ Layout(tracks, pinState).mode = "grid"
            /\ Layout(tracks, pinState).tracks = tracks
    /\ pinState # << >>
         => /\ Layout(tracks, pinState).mode = "focus"
            /\ Layout(tracks, pinState).focusTrack = pinState[1]
            /\ Layout(tracks, pinState).carouselTracks = Without(tracks, pinState[1])

\* C15 witness: a track is pinned while the snapshot also holds another
\* track of the same participant and a placeholder, which stay in the
\* carousel.
C15_Witness ==
    /\ pinState # << >>
    /\ \E i, j, k \in 1..Len(tracks) :
          /\ tracks[i] = pinState[1]
          /\ j # i /\ tracks[j].participant = pinState[1].participant
          /\ tracks[k].trackSid = Undefined
    /\ Len(Layout(tracks, pinState).carouselTracks) = 2

\* The side stores together with the toast, in a room that has no tracks
NextPanels == NextSide \/ NextToast

SpecSide == InitToast /\ [][NextPanels]_vars

\* C16: no panel is visible before the first widgetUpdate; afterwards the
\* invite panel is visible exactly when the value written last is
\* show_invite and the participant panel exactly when it is show_users; the
\* two are never visible together.
C16_WidgetLastWriterWins ==
    /\ ShareLinkVisible(widgetState) <=> lastWidgetWrite = "show_invite"
    /\ UsersVisible(widgetState) <=> lastWidgetWrite = "show_users"
    /\ ~(ShareLinkVisible(widgetState) /\ UsersVisible(widgetState))

\* C16 witness: show_users was written after other values, and only the
\* participant panel is visible.
C16_Witness ==
    /\ step = "widgetUpdate"
    /\ lastWidgetWrite = "show_users"
    /\ UsersVisible(widgetState)
    /\ ~ShareLinkVisible(widgetState)

\* The whole component in a small room: at most one track, a screen share;
\* one message text, set at the time the component mounts, and its
\* timeout; a waiting-room count of at most one.
SmallSnapshots ==
    { ts \in Snapshots :
        Len(ts) <= 1 /\ \A i \in 1..Len(ts) : ts[i].source = ScreenShare }

InitSmall == Init /\ tracks \in SmallSnapshots

NextSmall ==
    \/ \E newTracks \in SmallSnapshots : SnapshotUpdate(newTracks)
    \/ \E t \in AllTracks : UserSetPin(t)
    \/ UserClearPin
    \/ PinStoreMounts
    \/ AutoFocusEffect
    \/ (now = 0 /\ timers = << >> /\ SetMessage("A"))
    \/ TimerExpires
    \/ (now < D /\ Tick)
    \/ PropsChange
    \/ Unmount
    \/ \E state \in WidgetValues \cup {NullString} : widgetUpdate(state)
    \/ \E count \in 0..1 : updateCount(count)

SpecSmall == InitSmall /\ [][NextSmall]_vars

\* C17: a snapshot update, a pin action (of a user or of the auto-focus
\* effect), the pin channel appearing, a widgetUpdate and an updateCount
\* leave the toast message and its pending timeouts unchanged; a setMessage
\* and a timeout callback leave the tracks, the pin, lastAutoPinned, the
\* widget state and the waiting-room count unchanged.
C17_SideStoresIndependent ==
    [][/\ step' \in { "SnapshotUpdate", "UserSetPin", "UserClearPin",
                      "PinStoreMounts", "AutoFocusEffect", "widgetUpdate",
                      "updateCount" }
          => (waiting' = waiting /\ timers' = timers)
       /\ step' \in { "SetMessage", "TimerExpires" }
          => /\ tracks' = tracks
             /\ pinState' = pinState
             /\ lastAutoFocusedScreenShareTrack' = lastAutoFocusedScreenShareTrack
             /\ focusPending' = focusPending
             /\ widgetState' = widgetState
             /\ waitingRoomCount' = waitingRoomCount]_vars

\* C17 witness: a timeout callback has just cleared the toast while a
\* screen share is auto-pinned, a panel is open and guests are waiting.
C17_Witness ==
    /\ step = "TimerExpires"
    /\ mounted
    /\ waiting = NullString
    /\ pinState # << >>
    /\ lastAutoFocusedScreenShareTrack # Null
    /\ widgetState = "show_users"
    /\ waitingRoomCount = 1

\* The snapshot holds exactly one screen share, the rest being camera
\* tracks and placeholders
OneScreenShare(ts) ==
    Cardinality({ i \in 1..Len(ts) : ts[i].source = ScreenShare }) = 1

\* The round trip of C18; whenReady restricts the publish step to the
\* states in which the pin dispatch channel is available.
RoundTripStep(whenReady) ==
    /\ \* only camera tracks, nothing pinned: no action, grid
       (/\ step' = "AutoFocusEffect"
        /\ ~HasScreenShare(tracks)
        /\ pinState = << >>
        /\ lastAutoFocusedScreenShareTrack = Null)
       => /\ emitted' = NoAction
          /\ Layout(tracks', pinState') = [mode |-> "grid", tracks |-> tracks]
    /\ \* a screen share is published: the effect is scheduled
       (/\ step' = "SnapshotUpdate"
        /\ ~HasScreenShare(tracks)
        /\ pinState = << >>
        /\ lastAutoFocusedScreenShareTrack = Null
        /\ OneScreenShare(tracks'))
       => focusPending'
    /\ \* ... and pins it: focus layout, the camera tracks in the carousel
       (/\ step' = "AutoFocusEffect"
        /\ OneScreenShare(tracks)
        /\ pinState = << >>
        /\ lastAutoFocusedScreenShareTrack = Null
        /\ whenReady => dispatchReady)
       => /\ emitted' = SetPin(FirstScreenShare(tracks))
          /\ Layout(tracks', pinState') =
                 [mode |-> "focus", focusTrack |-> FirstScreenShare(tracks),
                  carouselTracks |-> Without(tracks, FirstScreenShare(tracks))]
    /\ \* the auto-pinned screen share is unpublished: the effect is scheduled
       (/\ step' = "SnapshotUpdate"
        /\ lastAutoFocusedScreenShareTrack # Null
        /\ pinState = << lastAutoFocusedScreenShareTrack >>
        /\ ~HasScreenShare(tracks'))
       => focusPending'
    /\ \* ... and clears the pin: grid, nothing pinned, nothing auto-pinned
       (/\ step' = "AutoFocusEffect"
        /\ lastAutoFocusedScreenShareTrack # Null
        /\ pinState = << lastAutoFocusedScreenShareTrack >>
        /\ ~HasScreenShare(tracks))
       => /\ emitted' = ClearPin
          /\ pinState' = << >>
          /\ lastAutoFocusedScreenShareTrack' = Null
          /\ Layout(tracks', pinState') = [mode |-> "grid", tracks |-> tracks]

\* C18 (as stated): from camera tracks only, an empty pin and an empty
\* lastAutoPinned, publishing a screen share leads to set_pin for it, the
\* focus layout and the camera tracks in the carousel; unpublishing it
\* leads to clear_pin, the grid, an empty pin and an empty lastAutoPinned.
C18_RoundTrip == [][RoundTripStep(FALSE)]_vars

\* C18 (amended): the same round trip when the pin dispatch channel is
\* available.
C18_RoundTripWhenChannelReady == [][RoundTripStep(TRUE)]_vars

\* C18 witness: the round trip is complete: the auto-pinned screen share
\* was in the pin store, the effect has just cleared it, and the camera
\* tracks are back in the grid.
C18_Witness ==
    /\ step = "AutoFocusEffect"
    /\ emitted = ClearPin
    /\ lastWrittenPin # Null
    /\ pinBefore = << lastWrittenPin >>
    /\ pinState = << >>
    /\ lastAutoFocusedScreenShareTrack = Null
    /\ tracks # << >>
    /\ ~HasScreenShare(tracks)
    /\ Layout(tracks, pinState).mode = "grid"

\* C19: in every quiescent state (no run of the auto-focus effect is
\* scheduled) whose snapshot holds a screen share, lastAutoPinned is not
\* empty.  Stated for the states in which the pin dispatch channel is
\* available and a set_pin of the effect has reached the pin store, so
\* that no dropped action is involved.
C19_NoStrandedScreenShare ==
    (/\ mounted
     /\ ~focusPending
     /\ dispatchReady
     /\ lastWrittenPin # Null
     /\ HasScreenShare(tracks))
        => lastAutoFocusedScreenShareTrack # Null

\* C20: once the auto-focus effect has issued set_pin for a screen-share
\* track S, no run of the effect issues set_pin again for as long as S has
\* stayed in the snapshot, whatever pins the user set or cleared and
\* whatever other tracks came and went in between.
C20_NoSecondSetPinWhileShared ==
    [][(step' = "AutoFocusEffect" /\ sinceSetPin # Null)
          => emitted'.msg # "set_pin"]_vars

\* C20 witness: the effect has run without an action although the track it
\* pinned is no longer the pinned one and a second screen share is there.
C20_Witness ==
    /\ step = "AutoFocusEffect"
    /\ dispatchReady
    /\ sinceSetPin # Null
    /\ emitted = NoAction
    /\ pinState # << sinceSetPin >>
    /\ Len(screenShareTracks(tracks)) >= 2
    /\ \E i \in 1..Len(tracks) : tracks[i] = sinceSetPin

====
